---- MODULE Spec2Model ----
(***************************************************************************)
(* RemMux remote shell: the server's session loop, command dispatcher,     *)
(* change-directory handler, file-edit handler and executor                *)
(* (src/server/src/Server.cpp), one thread per accepted connection.        *)
(*                                                                         *)
(* Text is modelled by TLA+ strings (Len, \o and SubSeq work on them), so  *)
(* prefixes, substrings and trimming are computed as the code computes     *)
(* them.  The filesystem is a small fixed tree of directories plus the     *)
(* regular files, which nano can create.                                   *)
(***************************************************************************)
EXTENDS Integers, Sequences, FiniteSets, TLC

(* ------------------------------ bounds -------------------------------- *)

\* number of connection descriptors the accept loop can hand out
MaxSock == 2
\* total number of commands the clients send in one behaviour
MaxCmds == 3
\* the same total in the runs that draw from a wider set of commands
FewCmds == 2

Sockets == 1..MaxSock

(* --------------------------- the filesystem --------------------------- *)

\* directories of the modelled host (canonical names; no symbolic links)
Dirs == {"/", "/srv", "/home", "/home/Error", "/priv"}
\* directories the server's user can neither read nor search
NoAccess == {"/priv"}
\* working directory of the server process when it starts
StartDir == "/srv"
\* value of the HOME environment variable when it is set
HomeDir == "/home"
\* regular files present when the server starts
InitFiles == [p \in {"/home/f"} |-> "hi\n"]

\* the command lines the clients send in the runs of Spec
CoreCommands ==
    { "cd \t/home/Error ", "cd ..", "cd /nx", "pwd", "nano f", "exit" }

(* ------------------------- the size of a read ------------------------- *)

\* char buffer[1024] of handleClient
BufferSize == 1024
\* the longest command ClientBackend::sendCommand sends
MaxCommandLength == 1024

\* recv(clientSocket, buffer, sizeof(buffer) - 1, 0): the most one read takes
RecvMax == BufferSize - 1

\* ClientBackend::sendCommand: a longer command throws and is not sent
ClientAccepts(command) == Len(command) <= MaxCommandLength

\* a subprocess that never ends and writes nothing
Hangs(command) == command = "sleep inf"

VARIABLES
    open,         \* descriptors of accepted connections not yet closed by the server
    pc,           \* position of the thread handling each descriptor
    cmd,          \* the command the thread is handling (local `command`)
    outputBuffer, \* local `outputBuffer` of handleClient
    sent,         \* payloads passed to send() for the command being handled, in order
    clientPaths,  \* the session registry: descriptor -> stored directory
    pathsMutex,   \* holder of pathsMutex, 0 when free
    ambient,      \* the server process's current working directory
    inbox,        \* commands in a descriptor's receive queue that no recv has taken
    execCwd,      \* working directory the last subprocess was spawned in ("" if none)
    files,        \* regular files: path -> content
    homeSet,      \* whether HOME is set in the server's environment
    alphabet,     \* the command lines the peers of this run send
    budget,       \* commands the clients may still send
    call,         \* per client thread: its position in ClientBackend::sendCommand
    returned,     \* what the calls of sendCommand have returned, in order
    answers,      \* the server's complete responses on the client's connection
    backendPath,  \* ClientBackend::currentPath
    gui           \* the input handler of the GUI: the line it is processing

\* the state of the client program
clientVars == << call, returned, answers, backendPath, gui >>

vars == << open, pc, cmd, outputBuffer, sent, clientPaths, pathsMutex, ambient,
           inbox, execCwd, files, homeSet, alphabet, budget, call, returned,
           answers, backendPath, gui >>

(* ------------------------------ strings ------------------------------- *)

Min(a, b) == IF a < b THEN a ELSE b

\* std::string::substr(pos, n) for pos <= size (0-based, clipped at the end)
Substr(s, pos, n) == SubSeq(s, pos + 1, Min(pos + n, Len(s)))

\* std::string::substr(pos) for pos <= size
SubstrFrom(s, pos) == SubSeq(s, pos + 1, Len(s))

\* s.find(t) != npos
Contains(s, t) ==
    \E i \in 1..(Len(s) - Len(t) + 1) : SubSeq(s, i, i + Len(t) - 1) = t

CharAt(s, i) == SubSeq(s, i, i)

IsBlank(c) == c = " " \/ c = "\t"

\* s.erase(0, s.find_first_not_of(" \t")): everything goes when all is blank
TrimLeft(s) ==
    LET nb == {i \in 1..Len(s) : ~IsBlank(CharAt(s, i))}
    IN  IF nb = {} THEN ""
        ELSE SubSeq(s, CHOOSE i \in nb : \A j \in nb : i <= j, Len(s))

\* s.erase(s.find_last_not_of(" \t") + 1)
TrimRight(s) ==
    LET nb == {i \in 1..Len(s) : ~IsBlank(CharAt(s, i))}
    IN  IF nb = {} THEN ""
        ELSE SubSeq(s, 1, CHOOSE i \in nb : \A j \in nb : j <= i)

\* the text after the last newline (response.substr(find_last_of('\n') + 1))
AfterLastNewline(s) ==
    LET nl == {i \in 1..Len(s) : CharAt(s, i) = "\n"}
    IN  IF nl = {} THEN s
        ELSE SubSeq(s, (CHOOSE i \in nl : \A j \in nl : j <= i) + 1, Len(s))

(* ------------------------------- paths -------------------------------- *)

IsAbsolute(p) == Len(p) > 0 /\ CharAt(p, 1) = "/"

\* std::filesystem::path operator/
Join(a, b) ==
    IF IsAbsolute(b) THEN b
    ELSE IF a = "" THEN b
    ELSE IF CharAt(a, Len(a)) = "/" THEN a \o b
    ELSE a \o "/" \o b

\* path::parent_path(): the root is its own parent
ParentPath(p) ==
    LET sl == {i \in 1..Len(p) : CharAt(p, i) = "/"}
        k  == CHOOSE i \in sl : \A j \in sl : j <= i
    IN  IF sl = {} THEN ""
        ELSE IF k = 1 THEN "/"
        ELSE SubSeq(p, 1, k - 1)

\* the components of a path, empty ones dropped
RECURSIVE SplitPath(_, _)
SplitPath(s, acc) ==
    IF s = "" THEN (IF acc = "" THEN <<>> ELSE <<acc>>)
    ELSE LET c == CharAt(s, 1)
             r == SubSeq(s, 2, Len(s))
         IN  IF c = "/"
             THEN (IF acc = "" THEN <<>> ELSE <<acc>>) \o SplitPath(r, "")
             ELSE SplitPath(r, acc \o c)

Exists(p) == p \in Dirs \/ p \in DOMAIN files

IsDirectory(p) == p \in Dirs

\* access(p, R_OK | X_OK) == 0
Accessible(p) == p \notin NoAccess

\* what() of the filesystem_error the library throws for path p
FsWhat(op, p) == "filesystem error: " \o op \o ": No such file or directory [" \o p \o "]"

Ok(p) == [ok |-> TRUE, val |-> p]
Throw(w) == [ok |-> FALSE, val |-> w]

\* realpath: walk the components from an existing directory
RECURSIVE Walk(_, _, _)
Walk(cur, comps, orig) ==
    IF comps = <<>> THEN Ok(cur)
    ELSE IF ~IsDirectory(cur) \/ ~Accessible(cur) THEN Throw(FsWhat("in canonical", orig))
    ELSE LET c == Head(comps)
         IN  IF c = "." THEN Walk(cur, Tail(comps), orig)
             ELSE IF c = ".." THEN Walk(ParentPath(cur), Tail(comps), orig)
             ELSE IF Exists(Join(cur, c)) THEN Walk(Join(cur, c), Tail(comps), orig)
             ELSE Throw(FsWhat("in canonical", orig))

\* std::filesystem::canonical: a relative path is taken from the process's
\* working directory; a path that does not exist throws
Canonical(p) ==
    IF p = "" THEN Throw(FsWhat("in canonical", p))
    ELSE IF IsAbsolute(p) THEN Walk("/", SplitPath(p, ""), p)
    ELSE Walk(ambient, SplitPath(p, ""), p)

(* ------------------------ Server::resolvePath ------------------------- *)

\* std::getenv("HOME"), with the code's fallback to the root
HomeOrRoot == IF homeSet THEN HomeDir ELSE "/"

\* rawPath.empty() || rawPath == "~": the token stands for the home directory
IsHomeTokenEmptyOnly(rawPath) == rawPath = ""
IsHomeToken(rawPath) == rawPath = "" \/ rawPath = "~"

\* currentPath.parent_path(), for the token ".."
ResolveDotDotStays(currentPath) == currentPath
ResolveDotDot(currentPath) == ParentPath(currentPath)

\* the last case: rawPath[0] == '/' ? path(rawPath) : currentPath / rawPath
ResolveOtherRelative(rawPath, currentPath) == currentPath \o "/" \o rawPath
ResolveOther(rawPath, currentPath) ==
    IF CharAt(rawPath, 1) = "/" THEN rawPath ELSE Join(currentPath, rawPath)

\* the path resolvePath builds before it canonicalises it
ResolveTarget(rawPath, currentPath) ==
    IF IsHomeToken(rawPath) THEN HomeOrRoot
    ELSE IF CharAt(rawPath, 1) = "~" /\ Len(rawPath) > 1 /\ CharAt(rawPath, 2) = "/"
         THEN (IF homeSet THEN Join(HomeDir, SubstrFrom(rawPath, 2))
                          ELSE SubstrFrom(rawPath, 2))
    ELSE IF rawPath = "." THEN currentPath
    ELSE IF rawPath = ".." THEN ResolveDotDot(currentPath)
    ELSE ResolveOther(rawPath, currentPath)

\* resolvePath: Ok(canonical path) or Throw(what) when canonical() throws
ResolvePath(rawPath, currentPath) == Canonical(ResolveTarget(rawPath, currentPath))

(* --------------------- Server::validateDirectory ---------------------- *)

\* the result and the reason that is logged
ValidateDirectory(targetPath) ==
    IF ~Exists(targetPath) THEN [ok |-> FALSE, reason |-> "does not exists"]
    ELSE IF ~IsDirectory(targetPath) THEN [ok |-> FALSE, reason |-> "not a directory"]
    ELSE IF ~Accessible(targetPath)
         THEN [ok |-> FALSE, reason |-> "no read/execute permissions"]
    ELSE [ok |-> TRUE, reason |-> ""]

(* ------------------- Server::handleChangeDirectory -------------------- *)

\* the token: the text after "cd", trimmed of blanks and tabs
CdRawPath(command) == TrimRight(TrimLeft(SubstrFrom(command, 2)))

\* a store that changes every session's directory, as one process-wide
\* working directory would
StoreDirectoryAll(s, targetPath) == [x \in DOMAIN clientPaths |-> targetPath]

\* the registry after `currentPath = targetPath` for descriptor s
StoreDirectory(s, targetPath) == [clientPaths EXCEPT ![s] = targetPath]

\* a success response with the newline on the wrong side of the path
CdSuccessMsgTrailing(targetPath) == targetPath \o "\n"

\* the success response
CdSuccessMsg(targetPath) == "\n" \o targetPath

\* the response to a failed validation
CdInvalidMsg(rawPath) == "Invalid directory: " \o rawPath

\* the response when resolution throws a filesystem_error
CdFilesystemMsg(what) == "Filesystem error: " \o what

\* what handleChangeDirectory does for descriptor s: the outcome, the
\* registry it leaves and the message it sends
CdResultFor(rawPath, s) ==
    LET r == ResolvePath(IF rawPath = "" THEN "~" ELSE rawPath, clientPaths[s])
    IN  IF ~r.ok
        THEN [kind |-> "threw", paths |-> clientPaths, msg |-> CdFilesystemMsg(r.val),
              target |-> ""]
        ELSE IF ~ValidateDirectory(r.val).ok
        THEN [kind |-> "invalid", paths |-> clientPaths, msg |-> CdInvalidMsg(rawPath),
              target |-> r.val]
        ELSE [kind |-> "ok", paths |-> StoreDirectory(s, r.val),
              msg |-> CdSuccessMsg(r.val), target |-> r.val]

\* handleChangeDirectory on command: the token is trimmed once, then resolved
CdResult(command, s) ==
    CHOOSE r \in {CdResultFor(rawPath, s) : rawPath \in {CdRawPath(command)}} : TRUE

(* ----------------------- Server::executeCommand ----------------------- *)

\* /bin/bash -c '<cmd> 2>&1' run in directory cwd: exit status and output
Shell(command, cwd) ==
    IF command = "pwd" THEN [status |-> 0, out |-> cwd \o "\n"]
    ELSE IF command = "exit\n" THEN [status |-> 0, out |-> ""]
    ELSE IF command = "true" \/ command = "Sudo true" THEN [status |-> 0, out |-> ""]
    ELSE IF command = "false" THEN [status |-> 1, out |-> ""]
    \* clear writes the terminal's clear sequence (its ESC bytes left out)
    ELSE IF command = "clear" THEN [status |-> 0, out |-> "[H[2J"]
    ELSE [status |-> 127, out |-> "bash: " \o command \o ": command not found\n"]

SudoRefusal == "Error: sudo commands are not allowed"

\* a text with its upper-case letters made lower-case
UpperCase == "ABCDEFGHIJKLMNOPQRSTUVWXYZ"
LowerCase == "abcdefghijklmnopqrstuvwxyz"
ToLowerChar(c) ==
    IF \E i \in 1..Len(UpperCase) : CharAt(UpperCase, i) = c
    THEN CharAt(LowerCase, CHOOSE i \in 1..Len(UpperCase) : CharAt(UpperCase, i) = c)
    ELSE c
RECURSIVE ToLower(_)
ToLower(s) == IF s = "" THEN "" ELSE ToLowerChar(CharAt(s, 1)) \o ToLower(SubstrFrom(s, 1))

\* cmd.find("sudo") != npos: the text holds "sudo" somewhere
HasSudoAtStart(command) == Substr(command, 0, 4) = "sudo"
HasSudoAnyCase(command) == Contains(ToLower(command), "sudo")
HasSudo(command) == Contains(command, "sudo")

\* the text executeCommand returns; spawned is whether popen succeeded
ExecuteCommandByStatus(command, cwd, spawned) ==
    IF HasSudo(command) THEN SudoRefusal
    ELSE IF ~spawned THEN "Error: Command not recognized or failed to execute."
    ELSE LET r == Shell(command, cwd)
         IN  IF r.status # 0 THEN "Error: Unknown command: " \o command
             ELSE IF r.out = "" THEN "Warn: Command executed but produced no output."
             ELSE r.out
ExecuteCommand(command, cwd, spawned) ==
    IF HasSudo(command) THEN SudoRefusal
    ELSE IF ~spawned THEN "Error: Command not recognized or failed to execute."
    ELSE LET r == Shell(command, cwd)
         IN  IF r.status # 0 /\ r.out = "" THEN "Error: Unknown command: " \o command
             ELSE IF r.out = "" THEN "Warn: Command executed but produced no output."
             ELSE r.out

(* ---------------------- Server::handleNanoCommand --------------------- *)

\* an ofstream can create p only in a directory the server can use
CanCreate(p) == IsDirectory(ParentPath(p)) /\ Accessible(ParentPath(p))

\* the response and the files left by handleNanoCommand run in directory cwd
NanoResult(command, cwd) ==
    IF Len(command) < 5
    THEN [out |-> "Error: basic_string::substr", files |-> files]
    ELSE LET filePath == Join(cwd, SubstrFrom(command, 5))
         IN  IF ~Exists(filePath)
             THEN [out |-> "NEW_FILE",
                   files |-> IF CanCreate(filePath)
                             THEN [p \in DOMAIN files \cup {filePath} |->
                                      IF p = filePath THEN "" ELSE files[p]]
                             ELSE files]
             ELSE LET content == IF filePath \in DOMAIN files THEN files[filePath] ELSE ""
                  IN  [out |-> IF content = "" THEN "NEW_FILE" ELSE content,
                       files |-> files]

(* ----------------------- Server::processCommand ----------------------- *)

IsCd(command) == Substr(command, 0, 2) = "cd"

IsNano(command) == Substr(command, 0, 4) = "nano"

\* the handler processCommand routes a command to
Route(command) ==
    IF IsCd(command) THEN "cd"
    ELSE IF IsNano(command) THEN "nano"
    ELSE "exec"

\* current_path(p) succeeds
ChdirOk(p) == IsDirectory(p) /\ Accessible(p)

\* the process's working directory after current_path(clientPath)
AfterChdir(clientPath) == clientPath

(* ------------------------ Server::handleClient ------------------------ *)

IsExit(command) == command = "exit"

\* Server::cleanedCommand: the text without its line feeds and carriage
\* returns (and backspaces, which no command line of the model holds).
\* handleClient never calls it.
RECURSIVE CleanedCommand(_)
CleanedCommand(command) ==
    IF command = "" THEN ""
    ELSE LET c == CharAt(command, 1)
             rest == CleanedCommand(SubstrFrom(command, 1))
         IN  IF c = "\n" \/ c = "\r" THEN rest ELSE c \o rest

Farewell == "Goodbye!"

\* an exit branch without its return: the loop would go on
ExitKeepsLooping == "recv"

\* where the thread is after the exit branch: it has returned
AfterExit == "done"

(* ------------------------------ actions ------------------------------- *)

\* the threads of the client program that call ClientBackend::sendCommand
ClientThreads == {1, 2}
\* a thread outside sendCommand
IdleCall == [at |-> "idle", command |-> "", response |-> ""]
\* the directory the client program is started in (ClientGUI::ClientGUI)
ClientStartDir == "/home"
\* the input handler between two lines
IdleGui == [stage |-> "idle", line |-> "", path |-> "none", sends |-> 0]

\* the state after Server::Server, with HOME set (h) or not and the
\* regular files F, for peers that send n command lines out of A
InitRun(h, A, F, n) ==
    /\ open = {}
    /\ pc = [s \in Sockets |-> "none"]
    /\ cmd = [s \in Sockets |-> ""]
    /\ outputBuffer = [s \in Sockets |-> ""]
    /\ sent = [s \in Sockets |-> <<>>]
    /\ clientPaths = [s \in {} |-> ""]
    /\ pathsMutex = 0
    /\ ambient = StartDir
    /\ inbox = [s \in Sockets |-> <<>>]
    /\ execCwd = [s \in Sockets |-> ""]
    /\ files = F
    /\ homeSet = h
    /\ alphabet = A
    /\ budget = n
    /\ call = [t \in ClientThreads |-> IdleCall]
    /\ returned = << >>
    /\ answers = << >>
    /\ backendPath = ClientStartDir
    /\ gui = IdleGui

InitEnv(h, A) == InitRun(h, A, InitFiles, MaxCmds)

Init == InitEnv(TRUE, CoreCommands)

\* std::lock_guard on pathsMutex: thread s gets the mutex when no thread
\* holds it; executeCommand and handleNanoCommand run without it
CanLockWhileNoneExecutes(s) ==
    pathsMutex = 0 /\ \A t \in Sockets \ {s} : pc[t] \notin {"exec", "hung"}
CanLock(s) == pathsMutex = 0

\* Server::run: accept returns the lowest free descriptor and a detached
\* thread starts handleClient on it
Accept(s) ==
    /\ s \notin open
    /\ \A t \in Sockets : t < s => t \in open
    /\ open' = open \cup {s}
    /\ pc' = [pc EXCEPT ![s] = "init"]
    /\ cmd' = [cmd EXCEPT ![s] = ""]
    /\ sent' = [sent EXCEPT ![s] = <<>>]
    /\ inbox' = [inbox EXCEPT ![s] = <<>>]
    /\ UNCHANGED << outputBuffer, clientPaths, pathsMutex, ambient, execCwd, files,
                    homeSet, alphabet, budget >>
    /\ UNCHANGED clientVars

\* handleClient: lock_guard on pathsMutex taken for the registration
InitLock(s) ==
    /\ pc[s] = "init"
    /\ CanLock(s)
    /\ pathsMutex' = s
    /\ pc' = [pc EXCEPT ![s] = "init_locked"]
    /\ UNCHANGED << open, cmd, outputBuffer, sent, clientPaths, ambient, inbox,
                    execCwd, files, homeSet, alphabet, budget >>
    /\ UNCHANGED clientVars

\* handleClient: clientPaths[clientSocket] = current_path(), then the lock goes
InitInsert(s) ==
    /\ pc[s] = "init_locked"
    /\ pathsMutex = s
    /\ clientPaths' = [x \in DOMAIN clientPaths \cup {s} |->
                          IF x = s THEN ambient ELSE clientPaths[x]]
    /\ pathsMutex' = 0
    /\ pc' = [pc EXCEPT ![s] = "recv"]
    /\ UNCHANGED << open, cmd, outputBuffer, sent, ambient, inbox,
                    execCwd, files, homeSet, alphabet, budget >>
    /\ UNCHANGED clientVars

(* ---------------- ClientGUI: the calls of sendCommand ------------------ *)

\* the input paths of the client
InputPaths == {"terminal", "pane"}

\* what ClientGUI::processInput (single terminal) and processPaneInput
\* (pane) do first with the line the user entered: unless it is empty it
\* is sent, as it is, before the path looks at what the line is
FirstSend(path, command) == IF command = "" THEN << >> ELSE << command >>

\* the sendCommand calls that follow in processInput: a nano line is sent a
\* second time
ProcessInputResends(command) ==
    IF ~IsCd(command) /\ IsNano(command) THEN << command >> ELSE << >>

\* the same in processPaneInput: cd, nano and exit lines are sent a second
\* time
ProcessPaneInputResends(command) ==
    IF IsCd(command) \/ IsNano(command) \/ command = "exit"
    THEN << command >> ELSE << >>

\* the sendCommand calls an input path makes, in order, for a line
SendsOf(path, command) ==
    IF FirstSend(path, command) = << >> THEN << >>
    ELSE FirstSend(path, command)
         \o (IF path = "pane" THEN ProcessPaneInputResends(command)
             ELSE ProcessInputResends(command))

\* entered in some input path, the line is sent as it is
SentAsEntered(command) ==
    \E path \in InputPaths : FirstSend(path, command) = << command >>

\* the peer sends a command line after the server's thread has returned
\* from handleClient: nothing reads the descriptor any more, and the
\* command stays in the socket's receive queue
ClientSendLate(s, c) ==
    /\ s \in open
    /\ pc[s] = "done"
    /\ inbox[s] = <<>>
    /\ SentAsEntered(c) /\ ClientAccepts(c)
    /\ budget > 0
    /\ inbox' = [inbox EXCEPT ![s] = Append(@, c)]
    /\ budget' = budget - 1
    /\ UNCHANGED << open, pc, cmd, outputBuffer, sent, clientPaths, pathsMutex,
                    ambient, execCwd, files, homeSet, alphabet >>
    /\ UNCHANGED clientVars

\* what one recv takes of the bytes waiting on the descriptor, and what
\* it leaves for the next recv
RecvChunk(bytes) == SubSeq(bytes, 1, IF Len(bytes) < RecvMax THEN Len(bytes) ELSE RecvMax)
RecvRest(bytes) == IF Len(bytes) > RecvMax THEN SubSeq(bytes, RecvMax + 1, Len(bytes)) ELSE ""

\* the bytes a thread blocked in recv on descriptor s can get: what an
\* earlier recv has left, or else a command the client sends now
Arriving(s) ==
    IF pc[s] # "recv" THEN {}
    ELSE IF inbox[s] # <<>> THEN {Head(inbox[s])}
    ELSE {c \in alphabet : SentAsEntered(c) /\ ClientAccepts(c)}

\* handleClient: the thread blocked in recv gets (the first RecvMax of) the
\* bytes c, which the peer sends now unless they were waiting already
Receive(s, c) ==
    /\ pc[s] = "recv"
    /\ IF inbox[s] # <<>>
       THEN c = Head(inbox[s]) /\ UNCHANGED budget
       ELSE /\ c \in alphabet /\ SentAsEntered(c) /\ ClientAccepts(c)
            /\ budget > 0 /\ budget' = budget - 1
    /\ cmd' = [cmd EXCEPT ![s] = RecvChunk(c)]
    /\ inbox' = [inbox EXCEPT ![s] =
                    (IF RecvRest(c) # "" THEN << RecvRest(c) >> ELSE << >>)
                    \o (IF inbox[s] # <<>> THEN Tail(inbox[s]) ELSE << >>)]

\* handleClient: what recv returns is "exit": the farewell is sent and the
\* thread returns; the descriptor is not closed and the registry is not
\* touched
RecvExit(s, c) ==
    /\ Receive(s, c)
    /\ IsExit(RecvChunk(c))
    /\ sent' = [sent EXCEPT ![s] = << Farewell >>]
    /\ pc' = [pc EXCEPT ![s] = AfterExit]
    /\ UNCHANGED << open, outputBuffer, clientPaths, pathsMutex, ambient,
                    execCwd, files, homeSet, alphabet >>
    /\ UNCHANGED clientVars

\* handleClient: the peer has closed (or the connection failed) and recv
\* returns 0 (or -1): the loop ends and the descriptor is closed
RecvClosed(s) ==
    /\ pc[s] = "recv"
    /\ inbox[s] = <<>>
    /\ open' = open \ {s}
    /\ cmd' = [cmd EXCEPT ![s] = ""]
    /\ sent' = [sent EXCEPT ![s] = <<>>]
    /\ pc' = [pc EXCEPT ![s] = "done"]
    /\ UNCHANGED << outputBuffer, clientPaths, pathsMutex, ambient, inbox,
                    execCwd, files, homeSet, alphabet, budget >>
    /\ UNCHANGED clientVars

\* handleClient once the response out is sent: whatever the response, the
\* iteration ends and the loop goes on
AfterSendStopsOnFailure(out) ==
    IF out = "" \/ Substr(out, 0, 5) = "Error" THEN "done" ELSE "sent"
AfterSend(out) == "sent"

\* handleClient after processCommand returned: outputBuffer (out) is sent,
\* whatever it holds, after what the handler has sent itself (before)
SendResponse(s, before, out) ==
    /\ outputBuffer' = [outputBuffer EXCEPT ![s] = out]
    /\ sent' = [sent EXCEPT ![s] = Append(before, out)]
    /\ pc' = [pc EXCEPT ![s] = AfterSend(out)]

\* processCommand after the lookup of the client's path gave clientPath:
\* current_path(clientPath), then the routing by prefix; when
\* current_path throws, processCommand returns the error text at once
ChdirAndRoute(s, command, clientPath) ==
    IF ChdirOk(clientPath)
    THEN /\ ambient' = AfterChdir(clientPath)
         /\ pc' = [pc EXCEPT ![s] = Route(command)]
         /\ UNCHANGED << outputBuffer, sent >>
    ELSE /\ SendResponse(s, sent[s],
                "Error: " \o FsWhat("cannot set current path", clientPath))
         /\ UNCHANGED ambient

\* a command is received; processCommand reads clientPaths[clientSocket]
\* without pathsMutex and changes the process's working directory to it
RecvCommand(s, c) ==
    /\ Receive(s, c)
    /\ ~IsExit(RecvChunk(c))
    /\ ChdirAndRoute(s, RecvChunk(c), clientPaths[s])
    /\ UNCHANGED << open, clientPaths, pathsMutex, execCwd, files, homeSet,
                    alphabet >>
    /\ UNCHANGED clientVars

\* the same, when the unlocked lookup runs while another thread is inside
\* its insertion of a new key.  The data race lets the lookup miss the
\* entry, and operator[] then inserts a default (empty) path for the key.
RecvCommandRaced(s, c) ==
    /\ Receive(s, c)
    /\ ~IsExit(RecvChunk(c))
    /\ \E t \in Sockets \ {s} : pc[t] = "init_locked" /\ t \notin DOMAIN clientPaths
    /\ clientPaths' = [clientPaths EXCEPT ![s] = ""]
    /\ ChdirAndRoute(s, RecvChunk(c), "")
    /\ UNCHANGED << open, pathsMutex, execCwd, files, homeSet, alphabet >>
    /\ UNCHANGED clientVars

\* handleChangeDirectory, under pathsMutex from the lookup to its send;
\* back in handleClient the (empty) outputBuffer is sent as well
HandleChangeDirectory(s) ==
    /\ pc[s] = "cd"
    /\ CanLock(s)
    /\ LET r == CdResult(cmd[s], s)
       IN  /\ clientPaths' = r.paths
           /\ SendResponse(s, Append(sent[s], r.msg), outputBuffer[s])
    /\ UNCHANGED << open, cmd, pathsMutex, ambient, inbox, execCwd, files, homeSet,
                    alphabet, budget >>
    /\ UNCHANGED clientVars

\* handleNanoCommand: the file is looked up under the process's working
\* directory; handleClient sends what it returns
HandleNanoCommand(s) ==
    /\ pc[s] = "nano"
    /\ LET r == NanoResult(cmd[s], ambient)
       IN  /\ SendResponse(s, sent[s], r.out)
           /\ files' = r.files
    /\ UNCHANGED << open, cmd, clientPaths, pathsMutex, ambient, inbox, execCwd,
                    homeSet, alphabet, budget >>
    /\ UNCHANGED clientVars

\* executeCommand: the subprocess inherits the process's working
\* directory; handleClient sends what it returns.  The read loop has no
\* timeout: with a subprocess that never ends the thread stays in it
ExecuteStep(s) ==
    /\ pc[s] = "exec"
    /\ \E spawned \in BOOLEAN :
          /\ execCwd' = [execCwd EXCEPT ![s] =
                            IF spawned /\ ~HasSudo(cmd[s]) THEN ambient ELSE ""]
          /\ IF spawned /\ ~HasSudo(cmd[s]) /\ Hangs(cmd[s])
             THEN /\ pc' = [pc EXCEPT ![s] = "hung"]
                  /\ UNCHANGED << outputBuffer, sent >>
             ELSE SendResponse(s, sent[s], ExecuteCommand(cmd[s], ambient, spawned))
    /\ UNCHANGED << open, cmd, clientPaths, pathsMutex, ambient, inbox, files,
                    homeSet, alphabet, budget >>
    /\ UNCHANGED clientVars

\* handleClient: the iteration ends (its locals go, the buffer is cleared)
\* and the loop is back at recv
EndIteration(s) ==
    /\ pc[s] = "sent"
    /\ cmd' = [cmd EXCEPT ![s] = ""]
    /\ outputBuffer' = [outputBuffer EXCEPT ![s] = ""]
    /\ sent' = [sent EXCEPT ![s] = <<>>]
    /\ execCwd' = [execCwd EXCEPT ![s] = ""]
    /\ pc' = [pc EXCEPT ![s] = "recv"]
    /\ UNCHANGED << open, clientPaths, pathsMutex, ambient, inbox, files, homeSet,
                    alphabet, budget >>
    /\ UNCHANGED clientVars

Next ==
    \/ \E s \in Sockets : Accept(s)
    \/ \E s \in Sockets : InitLock(s)
    \/ \E s \in Sockets : InitInsert(s)
    \/ \E s \in Sockets : \E c \in alphabet : ClientSendLate(s, c)
    \/ \E s \in Sockets : \E c \in Arriving(s) : RecvCommand(s, c)
    \/ \E s \in Sockets : \E c \in Arriving(s) : RecvCommandRaced(s, c)
    \/ \E s \in Sockets : \E c \in Arriving(s) : RecvExit(s, c)
    \/ \E s \in Sockets : RecvClosed(s)
    \/ \E s \in Sockets : HandleChangeDirectory(s)
    \/ \E s \in Sockets : HandleNanoCommand(s)
    \/ \E s \in Sockets : ExecuteStep(s)
    \/ \E s \in Sockets : EndIteration(s)

Spec == Init /\ [][Next]_vars

(* ------------------- runs with other command lines -------------------- *)

\* command lines as a terminal or a line-based client sends them, and
\* nano on files that exist, do not exist or cannot be created
RawCommands ==
    { "exit\n", "cd /home\r\n", "nano f", "nano g", "nano nx/f", "pwd", "exit" }
\* the files of those runs: one holds the very text of the nano sentinel
RawFiles == [p \in {"/home/f", "/srv/g"} |->
                IF p = "/srv/g" THEN "NEW_FILE" ELSE "hi\n"]

InitRaw == InitRun(TRUE, RawCommands, RawFiles, FewCmds)
SpecRaw == InitRaw /\ [][Next]_vars

\* command lines for the executor and its sudo filter
ExecCommands ==
    { "sudo ls", "ls && sudo rm -rf /", "cd sudo", "nano sudo",
      "SUDO ls", "Sudo true", "pwd", "true", "false", "frob", "exit" }

InitExec == InitRun(TRUE, ExecCommands, InitFiles, FewCmds)
SpecExec == InitExec /\ [][Next]_vars

\* cd commands for every case of resolvePath, on directories, a regular
\* file and a path that does not exist
ResolveCommands ==
    { "cd", "cd ~", "cd .", "cd ..", "cd /home/f", "cd /nx",
      "nano f", "pwd", "exit" }

\* the server is started with HOME set or without it
InitResolve == \E h \in BOOLEAN : InitRun(h, ResolveCommands, InitFiles, FewCmds)
SpecResolve == InitResolve /\ [][Next]_vars

\* lines a user enters, the empty line and "clear" among them
ClientCommands == { "", "clear", "cd ..", "nano f", "pwd", "exit" }
InitClient == InitRun(TRUE, ClientCommands, InitFiles, FewCmds)
SpecClient == InitClient /\ [][Next]_vars

\* commands that fail: a cd to a path that does not exist, a nano without
\* a file name, a nano in a directory that does not exist, a generic
\* command with a nonzero status and no output
FailCommands == { "cd /nx", "nano", "nano nx/f", "false", "exit" }
InitFail == InitRun(TRUE, FailCommands, InitFiles, FewCmds)
SpecFail == InitFail /\ [][Next]_vars

\* commands whose first word is not the prefix they are routed by
RouteCommands == { "cdfoo", "cd..", "nanox", "nano f", "pwd", "exit" }
InitRoute == InitRun(TRUE, RouteCommands, InitFiles, FewCmds)
SpecRoute == InitRoute /\ [][Next]_vars

\* a text of n bytes
RECURSIVE Fill(_)
Fill(n) ==
    IF n = 0 THEN ""
    ELSE IF n % 2 = 0 THEN LET h == Fill(n \div 2) IN h \o h
    ELSE "x" \o Fill(n - 1)

\* command lines at the sizes where the client's limit and the server's
\* read meet
LongCommands ==
    { Fill(RecvMax), Fill(MaxCommandLength), Fill(MaxCommandLength + 1),
      "cd ..", "nano f", "pwd", "exit" }

InitLong == InitRun(TRUE, LongCommands, InitFiles, FewCmds)
SpecLong == InitLong /\ [][Next]_vars

\* command lines of which one starts a subprocess that never ends
HangCommands == { "sleep inf", "cd ..", "pwd", "nano f", "exit" }

InitHang == InitRun(TRUE, HangCommands, InitFiles, FewCmds)

\* a step the thread of descriptor s takes on its own, without its peer
ThreadStep(s) ==
    \/ InitLock(s)
    \/ InitInsert(s)
    \/ HandleChangeDirectory(s)
    \/ HandleNanoCommand(s)
    \/ ExecuteStep(s)
    \/ EndIteration(s)

\* every thread that can take a step of its own again and again takes
\* one: a running thread is scheduled, and a thread that waits for
\* pathsMutex gets it if the mutex is free again and again.  The peers
\* and the accept loop are under no obligation.
ThreadFairness(s) == SF_vars(ThreadStep(s))

SpecHang == InitHang /\ [][Next]_vars /\ \A s \in Sockets : ThreadFairness(s)

(* ------------- the threads step by step, with their mutexes ----------- *)

\* Positions of a thread of handleClient between two steps of this finer
\* view (the positions "none", "init", "init_locked", "recv", "cd", "nano",
\* "exec", "hung", "sent" and "done" are those of the actions above):
\*   received        recv has returned a command, logger.log is called
\*   exit            the command is "exit"
\*   dispatch        processCommand is called
\*   cd_locked       handleChangeDirectory holds pathsMutex
\*   cd_ok           the directory is stored and the message sent
\*   cd_err          validation has failed, its message is not sent yet
\*   cd_err_send     the failure is logged, its message is sent next
\*   cd_threw        resolution has thrown: the try block is left, which
\*                   ends the lock_guard, and a catch clause is entered
\*   cd_threw_send   the exception is logged, its message is sent next
\*   cd_unlock       the lock_guard on pathsMutex goes out of scope
\*   respond         handleClient is about to lock clientMutex
\*   respond_locked  it holds clientMutex and calls logger.log
\*   respond_send    it sends outputBuffer
\*   closing         recv has returned 0, clientMutex is locked next
\*   closing_locked  it holds clientMutex and calls logger.log
\*   closing_close   close(clientSocket) is next
\* and, for each position p at which logger.log is called, p \o "_log" is
\* the position inside Logger::log, under logMutex.

\* the positions at which a thread calls logger.log
LogCalls ==
    {"received", "cd_ok", "cd_err", "cd_threw", "respond_locked", "closing_locked"}

\* the position inside Logger::log for a call made at position p
InLog(p) == p \o "_log"
LogPositions == { InLog(p) : p \in LogCalls }

\* where a thread goes on after Logger::log has returned
AfterLog(s) ==
    IF pc[s] = "received_log" THEN (IF IsExit(cmd[s]) THEN "exit" ELSE "dispatch")
    ELSE IF pc[s] = "cd_ok_log" THEN "cd_unlock"
    ELSE IF pc[s] = "cd_err_log" THEN "cd_err_send"
    ELSE IF pc[s] = "cd_threw_log" THEN "cd_threw_send"
    ELSE IF pc[s] = "respond_locked_log" THEN "respond_send"
    ELSE "closing_close"

\* the holder of Logger::logMutex: the thread inside Logger::log, or 0
logMutex ==
    IF \E s \in Sockets : pc[s] \in LogPositions
    THEN CHOOSE s \in Sockets : pc[s] \in LogPositions
    ELSE 0

\* the positions inside the two blocks of handleClient that lock clientMutex
ClientMutexScope ==
    { "respond_locked", "respond_locked_log", "respond_send",
      "closing_locked", "closing_locked_log", "closing_close" }

\* the holder of Server::clientMutex, or 0
clientMutex ==
    IF \E s \in Sockets : pc[s] \in ClientMutexScope
    THEN CHOOSE s \in Sockets : pc[s] \in ClientMutexScope
    ELSE 0

\* the mutex the body of Logger::log locks besides logMutex: none
LogBodyLocksClientMutex == "clientMutex"
LogBodyLocks == "none"

\* the holder of the mutex named m, or 0
HolderOf(m) ==
    IF m = "pathsMutex" THEN pathsMutex
    ELSE IF m = "clientMutex" THEN clientMutex
    ELSE IF m = "logMutex" THEN logMutex
    ELSE 0

\* the mutex the thread of descriptor s is about to lock, "none" if its
\* next step locks nothing
WaitsFor(s) ==
    IF pc[s] \in {"init", "cd"} THEN "pathsMutex"
    ELSE IF pc[s] \in {"respond", "closing"} THEN "clientMutex"
    ELSE IF pc[s] \in LogCalls THEN "logMutex"
    ELSE IF pc[s] \in LogPositions THEN LogBodyLocks
    ELSE "none"

\* handleClient: recv returns a command line
ReadCommand(s, c) ==
    /\ Receive(s, c)
    /\ pc' = [pc EXCEPT ![s] = "received"]
    /\ UNCHANGED << open, outputBuffer, sent, clientPaths, pathsMutex, ambient,
                    execCwd, files, homeSet, alphabet >>
    /\ UNCHANGED clientVars

\* handleClient: recv returns 0 or -1 and the loop is left
ReadClosed(s) ==
    /\ pc[s] = "recv"
    /\ inbox[s] = <<>>
    /\ cmd' = [cmd EXCEPT ![s] = ""]
    /\ pc' = [pc EXCEPT ![s] = "closing"]
    /\ UNCHANGED << open, outputBuffer, sent, clientPaths, pathsMutex, ambient,
                    inbox, execCwd, files, homeSet, alphabet, budget >>
    /\ UNCHANGED clientVars

\* Logger::log: the lock_guard on logMutex is taken
LoggerEnter(s) ==
    /\ pc[s] \in LogCalls
    /\ logMutex = 0
    /\ pc' = [pc EXCEPT ![s] = InLog(pc[s])]
    /\ UNCHANGED << open, cmd, outputBuffer, sent, clientPaths, pathsMutex,
                    ambient, inbox, execCwd, files, homeSet, alphabet, budget >>
    /\ UNCHANGED clientVars

\* Logger::log: the line is written and the lock_guard goes
LoggerLeave(s) ==
    /\ pc[s] \in LogPositions
    /\ LogBodyLocks = "none" \/ HolderOf(LogBodyLocks) = 0
    /\ pc' = [pc EXCEPT ![s] = AfterLog(s)]
    /\ UNCHANGED << open, cmd, outputBuffer, sent, clientPaths, pathsMutex,
                    ambient, inbox, execCwd, files, homeSet, alphabet, budget >>
    /\ UNCHANGED clientVars

\* handleClient, exit branch: the farewell is sent, with no mutex held,
\* and the thread returns
SendFarewell(s) ==
    /\ pc[s] = "exit"
    /\ sent' = [sent EXCEPT ![s] = << Farewell >>]
    /\ pc' = [pc EXCEPT ![s] = AfterExit]
    /\ UNCHANGED << open, cmd, outputBuffer, clientPaths, pathsMutex, ambient,
                    inbox, execCwd, files, homeSet, alphabet, budget >>
    /\ UNCHANGED clientVars

\* processCommand up to its routing, for the path clientPath its lookup
\* gave: current_path(clientPath); when that throws, the error text is the
\* output and handleClient goes on to its response block
ChdirAndRouteOnly(s, clientPath) ==
    IF ChdirOk(clientPath)
    THEN /\ ambient' = AfterChdir(clientPath)
         /\ pc' = [pc EXCEPT ![s] = Route(cmd[s])]
         /\ UNCHANGED outputBuffer
    ELSE /\ outputBuffer' = [outputBuffer EXCEPT ![s] =
                "Error: " \o FsWhat("cannot set current path", clientPath)]
         /\ pc' = [pc EXCEPT ![s] = "respond"]
         /\ UNCHANGED ambient

\* processCommand: the lookup without pathsMutex, the chdir, the routing
LookupAndRoute(s) ==
    /\ pc[s] = "dispatch"
    /\ ChdirAndRouteOnly(s, clientPaths[s])
    /\ UNCHANGED << open, cmd, sent, clientPaths, pathsMutex, inbox, execCwd,
                    files, homeSet, alphabet, budget >>
    /\ UNCHANGED clientVars

\* the same when the lookup races with another thread's insertion
LookupRaced(s) ==
    /\ pc[s] = "dispatch"
    /\ \E t \in Sockets \ {s} : pc[t] = "init_locked" /\ t \notin DOMAIN clientPaths
    /\ clientPaths' = [clientPaths EXCEPT ![s] = ""]
    /\ ChdirAndRouteOnly(s, "")
    /\ UNCHANGED << open, cmd, sent, pathsMutex, inbox, execCwd, files, homeSet,
                    alphabet, budget >>
    /\ UNCHANGED clientVars

\* handleChangeDirectory: the lock_guard on pathsMutex is taken
CdAcquire(s) ==
    /\ pc[s] = "cd"
    /\ CanLock(s)
    /\ pathsMutex' = s
    /\ pc' = [pc EXCEPT ![s] = "cd_locked"]
    /\ UNCHANGED << open, cmd, outputBuffer, sent, clientPaths, ambient, inbox,
                    execCwd, files, homeSet, alphabet, budget >>
    /\ UNCHANGED clientVars

\* handleChangeDirectory under pathsMutex: the target is resolved and
\* validated; a valid target is stored and the success message sent; an
\* exception unwinds the try block, which releases pathsMutex
CdResolveAndStore(s) ==
    /\ pc[s] = "cd_locked"
    /\ LET r == CdResult(cmd[s], s)
       IN  IF r.kind = "ok"
           THEN /\ clientPaths' = r.paths
                /\ sent' = [sent EXCEPT ![s] = Append(@, r.msg)]
                /\ pc' = [pc EXCEPT ![s] = "cd_ok"]
                /\ UNCHANGED pathsMutex
           ELSE IF r.kind = "invalid"
           THEN /\ pc' = [pc EXCEPT ![s] = "cd_err"]
                /\ UNCHANGED << clientPaths, sent, pathsMutex >>
           ELSE /\ pc' = [pc EXCEPT ![s] = "cd_threw"]
                /\ pathsMutex' = 0
                /\ UNCHANGED << clientPaths, sent >>
    /\ UNCHANGED << open, cmd, outputBuffer, ambient, inbox, execCwd, files,
                    homeSet, alphabet, budget >>
    /\ UNCHANGED clientVars

\* handleChangeDirectory: the failure message is sent, under pathsMutex
\* after a failed validation, in a catch clause after an exception
CdSendFailure(s) ==
    /\ pc[s] \in {"cd_err_send", "cd_threw_send"}
    /\ sent' = [sent EXCEPT ![s] = Append(@, CdResult(cmd[s], s).msg)]
    /\ pc' = [pc EXCEPT ![s] = IF pc[s] = "cd_err_send" THEN "cd_unlock" ELSE "respond"]
    /\ UNCHANGED << open, cmd, outputBuffer, clientPaths, pathsMutex, ambient,
                    inbox, execCwd, files, homeSet, alphabet, budget >>
    /\ UNCHANGED clientVars

\* handleChangeDirectory returns: the lock_guard on pathsMutex goes
CdRelease(s) ==
    /\ pc[s] = "cd_unlock"
    /\ pathsMutex' = 0
    /\ pc' = [pc EXCEPT ![s] = "respond"]
    /\ UNCHANGED << open, cmd, outputBuffer, sent, clientPaths, ambient, inbox,
                    execCwd, files, homeSet, alphabet, budget >>
    /\ UNCHANGED clientVars

\* handleNanoCommand: what it returns becomes outputBuffer
RunNano(s) ==
    /\ pc[s] = "nano"
    /\ LET r == NanoResult(cmd[s], ambient)
       IN  /\ outputBuffer' = [outputBuffer EXCEPT ![s] = r.out]
           /\ files' = r.files
    /\ pc' = [pc EXCEPT ![s] = "respond"]
    /\ UNCHANGED << open, cmd, sent, clientPaths, pathsMutex, ambient, inbox,
                    execCwd, homeSet, alphabet, budget >>
    /\ UNCHANGED clientVars

\* executeCommand: what it returns becomes outputBuffer
RunExecutor(s) ==
    /\ pc[s] = "exec"
    /\ \E spawned \in BOOLEAN :
          /\ execCwd' = [execCwd EXCEPT ![s] =
                            IF spawned /\ ~HasSudo(cmd[s]) THEN ambient ELSE ""]
          /\ IF spawned /\ ~HasSudo(cmd[s]) /\ Hangs(cmd[s])
             THEN /\ pc' = [pc EXCEPT ![s] = "hung"]
                  /\ UNCHANGED outputBuffer
             ELSE /\ outputBuffer' = [outputBuffer EXCEPT ![s] =
                                         ExecuteCommand(cmd[s], ambient, spawned)]
                  /\ pc' = [pc EXCEPT ![s] = "respond"]
    /\ UNCHANGED << open, cmd, sent, clientPaths, pathsMutex, ambient, inbox, files,
                    homeSet, alphabet, budget >>
    /\ UNCHANGED clientVars

\* handleClient: the lock_guard on clientMutex of the response block, or of
\* the block after the loop, is taken
ClientMutexAcquire(s) ==
    /\ pc[s] \in {"respond", "closing"}
    /\ clientMutex = 0
    /\ pc' = [pc EXCEPT ![s] = pc[s] \o "_locked"]
    /\ UNCHANGED << open, cmd, outputBuffer, sent, clientPaths, pathsMutex,
                    ambient, inbox, execCwd, files, homeSet, alphabet, budget >>
    /\ UNCHANGED clientVars

\* handleClient: outputBuffer is sent under clientMutex; the block ends
ResponseSend(s) ==
    /\ pc[s] = "respond_send"
    /\ sent' = [sent EXCEPT ![s] = Append(@, outputBuffer[s])]
    /\ pc' = [pc EXCEPT ![s] = AfterSend(outputBuffer[s])]
    /\ UNCHANGED << open, cmd, outputBuffer, clientPaths, pathsMutex, ambient,
                    inbox, execCwd, files, homeSet, alphabet, budget >>
    /\ UNCHANGED clientVars

\* handleClient after the loop: the block on clientMutex ends and the
\* descriptor is closed
CloseSocket(s) ==
    /\ pc[s] = "closing_close"
    /\ open' = open \ {s}
    /\ sent' = [sent EXCEPT ![s] = <<>>]
    /\ pc' = [pc EXCEPT ![s] = "done"]
    /\ UNCHANGED << cmd, outputBuffer, clientPaths, pathsMutex, ambient, inbox,
                    execCwd, files, homeSet, alphabet, budget >>
    /\ UNCHANGED clientVars

NextLocks ==
    \/ \E s \in Sockets : Accept(s)
    \/ \E s \in Sockets : InitLock(s)
    \/ \E s \in Sockets : InitInsert(s)
    \/ \E s \in Sockets : \E c \in Arriving(s) : ReadCommand(s, c)
    \/ \E s \in Sockets : ReadClosed(s)
    \/ \E s \in Sockets : LoggerEnter(s)
    \/ \E s \in Sockets : LoggerLeave(s)
    \/ \E s \in Sockets : SendFarewell(s)
    \/ \E s \in Sockets : LookupAndRoute(s)
    \/ \E s \in Sockets : LookupRaced(s)
    \/ \E s \in Sockets : CdAcquire(s)
    \/ \E s \in Sockets : CdResolveAndStore(s)
    \/ \E s \in Sockets : CdSendFailure(s)
    \/ \E s \in Sockets : CdRelease(s)
    \/ \E s \in Sockets : RunNano(s)
    \/ \E s \in Sockets : RunExecutor(s)
    \/ \E s \in Sockets : ClientMutexAcquire(s)
    \/ \E s \in Sockets : ResponseSend(s)
    \/ \E s \in Sockets : EndIteration(s)
    \/ \E s \in Sockets : CloseSocket(s)

\* command lines for each way through the handlers
LockCommands == { "cd ..", "cd /home/f", "cd /nx", "nano f", "pwd", "exit" }
InitLocks == InitRun(TRUE, LockCommands, InitFiles, FewCmds)
SpecLocks == InitLocks /\ [][NextLocks]_vars

(* ------------- ClientBackend::sendCommand and its callers ------------- *)

\* the descriptor the server's accept gave the client's connection: the
\* client is the first peer to connect
ClientSock == CHOOSE s \in Sockets : \A t \in Sockets : s <= t
\* the thread of the GUI's event loop
GuiThread == CHOOSE t \in ClientThreads : \A u \in ClientThreads : t <= u

\* std::vector<char> buffer(8192, '\0') of sendCommand
ResponseBufferSize == 8192
\* recv(clientSocket, buffer.data(), buffer.size() - 1, 0): the most it takes
ResponseMax == ResponseBufferSize - 1

\* the texts of a sequence, one after the other
RECURSIVE Concat(_)
Concat(msgs) == IF msgs = << >> THEN "" ELSE Head(msgs) \o Concat(Tail(msgs))

\* every byte the server has written to the client's connection so far, and
\* those of them that no recv of the client has taken yet
Stream == Concat(answers) \o Concat(sent[ClientSock])
Unread == SubstrFrom(Stream, Len(Concat(returned)))

\* what one recv of sendCommand takes of the bytes waiting
TakeAll(bytes) == bytes
TakeResponse(bytes) == Substr(bytes, 0, ResponseMax)

\* the holder of ClientBackend::backendMutex: the thread inside the
\* lock_guard of sendCommand, or 0
backendMutex ==
    IF \E t \in ClientThreads : call[t].at \in {"locked", "sent"}
    THEN CHOOSE t \in ClientThreads : call[t].at \in {"locked", "sent"}
    ELSE 0

\* std::lock_guard on backendMutex: thread t gets it when no thread holds it
BackendCanLockAlways(t) == TRUE
BackendCanLock(t) == backendMutex = 0

\* thread t calls sendCommand(command)
CallSendCommand(t, command) ==
    /\ ClientSock \in open
    /\ call[t].at = "idle"
    /\ call' = [call EXCEPT ![t] = [at |-> "calling", command |-> command, response |-> ""]]

\* sendCommand: the lock_guard on backendMutex is taken
BackendLock(t) ==
    /\ call[t].at = "calling"
    /\ BackendCanLock(t)
    /\ call' = [call EXCEPT ![t].at = "locked"]
    /\ UNCHANGED << open, pc, cmd, outputBuffer, sent, clientPaths, pathsMutex,
                    ambient, inbox, execCwd, files, homeSet, alphabet, budget,
                    returned, answers, backendPath, gui >>

\* sendCommand: a command longer than 1024 bytes throws, any other is sent
BackendSend(t) ==
    /\ call[t].at = "locked"
    /\ IF ClientAccepts(call[t].command)
       THEN /\ inbox' = [inbox EXCEPT ![ClientSock] = Append(@, call[t].command)]
            /\ call' = [call EXCEPT ![t].at = "sent"]
       ELSE /\ call' = [call EXCEPT ![t].at = "threw"]
            /\ UNCHANGED inbox
    /\ UNCHANGED << open, pc, cmd, outputBuffer, sent, clientPaths, pathsMutex,
                    ambient, execCwd, files, homeSet, alphabet, budget,
                    returned, answers, backendPath, gui >>

\* sendCommand: recv returns the bytes waiting, at most 8191 of them, the
\* lock_guard goes and the text is returned.  The server does not close the
\* connection while the client has it open, so recv does not return 0 here.
BackendRecv(t) ==
    /\ call[t].at = "sent"
    /\ Unread # ""
    /\ LET response == TakeResponse(Unread)
       IN  /\ returned' = Append(returned, response)
           /\ call' = [call EXCEPT ![t].at = "returned", ![t].response = response]
    /\ UNCHANGED << open, pc, cmd, outputBuffer, sent, clientPaths, pathsMutex,
                    ambient, inbox, execCwd, files, homeSet, alphabet, budget,
                    answers, backendPath, gui >>

\* handleClient is through with a command of the client's connection: what
\* it has sent for it is the complete response to that command
CompleteResponse(s) ==
    /\ pc[s] = "sent"
    /\ answers' = Append(answers, Concat(sent[s]))
    /\ cmd' = [cmd EXCEPT ![s] = ""]
    /\ outputBuffer' = [outputBuffer EXCEPT ![s] = ""]
    /\ sent' = [sent EXCEPT ![s] = <<>>]
    /\ execCwd' = [execCwd EXCEPT ![s] = ""]
    /\ pc' = [pc EXCEPT ![s] = "recv"]
    /\ UNCHANGED << open, clientPaths, pathsMutex, ambient, inbox, files, homeSet,
                    alphabet, budget, call, returned, backendPath, gui >>

\* the command the thread of descriptor s, blocked in recv, finds waiting
Queued(s) == IF pc[s] = "recv" /\ inbox[s] # <<>> THEN {Head(inbox[s])} ELSE {}

\* the server's side of the client's connection
ServerStep ==
    \/ Accept(ClientSock)
    \/ InitLock(ClientSock)
    \/ InitInsert(ClientSock)
    \/ \E c \in Queued(ClientSock) : RecvCommand(ClientSock, c)
    \/ \E c \in Queued(ClientSock) : RecvExit(ClientSock, c)
    \/ HandleChangeDirectory(ClientSock)
    \/ HandleNanoCommand(ClientSock)
    \/ ExecuteStep(ClientSock)
    \/ CompleteResponse(ClientSock)

\* the steps of sendCommand
BackendStep ==
    \/ \E t \in ClientThreads : BackendLock(t)
    \/ \E t \in ClientThreads : BackendSend(t)
    \/ \E t \in ClientThreads : BackendRecv(t)

(* two threads calling sendCommand on one ClientBackend *)

\* some thread calls sendCommand
Call(t, command) ==
    /\ budget > 0
    /\ budget' = budget - 1
    /\ CallSendCommand(t, command)
    /\ UNCHANGED << open, pc, cmd, outputBuffer, sent, clientPaths, pathsMutex,
                    ambient, inbox, execCwd, files, homeSet, alphabet,
                    returned, answers, backendPath, gui >>

\* the caller has the response, or has caught what sendCommand threw
CallEnds(t) ==
    /\ call[t].at \in {"returned", "threw"}
    /\ call' = [call EXCEPT ![t] = IdleCall]
    /\ UNCHANGED << open, pc, cmd, outputBuffer, sent, clientPaths, pathsMutex,
                    ambient, inbox, execCwd, files, homeSet, alphabet, budget,
                    returned, answers, backendPath, gui >>

NextBackend ==
    \/ ServerStep
    \/ BackendStep
    \/ \E t \in ClientThreads : \E c \in alphabet : Call(t, c)
    \/ \E t \in ClientThreads : CallEnds(t)

BackendCommands == { "cd ..", "nano f", "pwd", "exit", Fill(MaxCommandLength + 1) }
InitBackend == InitRun(TRUE, BackendCommands, InitFiles, MaxCmds)
SpecBackend == InitBackend /\ [][NextBackend]_vars

(* the input handlers of the GUI: processInput and processPaneInput *)

\* the calls of sendCommand an input handler makes for a line after the
\* first one has returned
Resends(path, command) ==
    IF path = "pane" THEN ProcessPaneInputResends(command)
    ELSE ProcessInputResends(command)

\* the user enters a line in the terminal or in a pane (the connection
\* belongs to one of the two); the handler calls sendCommand with it
SubmitLine(path, line) ==
    /\ gui.stage = "idle"
    /\ gui.path \in {"none", path}
    /\ FirstSend(path, line) = << line >>
    /\ budget > 0
    /\ budget' = budget - 1
    /\ CallSendCommand(GuiThread, line)
    /\ gui' = [stage |-> "first", line |-> line, path |-> path, sends |-> 1]
    /\ UNCHANGED << open, pc, cmd, outputBuffer, sent, clientPaths, pathsMutex,
                    ambient, inbox, execCwd, files, homeSet, alphabet,
                    returned, answers, backendPath >>

\* the first call has returned and the handler's branch for the line calls
\* sendCommand again
GuiResend ==
    /\ gui.stage = "first"
    /\ call[GuiThread].at = "returned"
    /\ Resends(gui.path, gui.line) # << >>
    /\ call' = [call EXCEPT ![GuiThread] =
                  [at |-> "calling", command |-> Head(Resends(gui.path, gui.line)),
                   response |-> ""]]
    /\ gui' = [gui EXCEPT !.stage = "second", !.sends = 2]
    /\ UNCHANGED << open, pc, cmd, outputBuffer, sent, clientPaths, pathsMutex,
                    ambient, inbox, execCwd, files, homeSet, alphabet, budget,
                    returned, answers, backendPath >>

\* the path the cd branch sets for a response, given the path so far
PathAfterCd(response, path) ==
    IF ~Contains(response, "Invalid directory") /\ ~Contains(response, "Error")
    THEN AfterLastNewline(response)
    ELSE path

\* the last call for the line has returned: cd sets the path from the
\* response, exit closes the window or the pane, any other line is shown
GuiFinish ==
    /\ gui.stage \in {"first", "second"}
    /\ call[GuiThread].at = "returned"
    /\ gui.stage = "first" => Resends(gui.path, gui.line) = << >>
    /\ backendPath' = IF IsCd(gui.line)
                      THEN PathAfterCd(call[GuiThread].response, backendPath)
                      ELSE backendPath
    /\ gui' = [gui EXCEPT !.stage = IF ~IsCd(gui.line) /\ ~IsNano(gui.line) /\ gui.line = "exit"
                                    THEN "closed" ELSE "idle",
                          !.line = "", !.sends = 0]
    /\ call' = [call EXCEPT ![GuiThread] = IdleCall]
    /\ UNCHANGED << open, pc, cmd, outputBuffer, sent, clientPaths, pathsMutex,
                    ambient, inbox, execCwd, files, homeSet, alphabet, budget,
                    returned, answers >>

\* sendCommand has thrown: the handler's catch clause shows the error
GuiCatch ==
    /\ gui.stage \in {"first", "second"}
    /\ call[GuiThread].at = "threw"
    /\ gui' = [gui EXCEPT !.stage = "idle", !.line = "", !.sends = 0]
    /\ call' = [call EXCEPT ![GuiThread] = IdleCall]
    /\ UNCHANGED << open, pc, cmd, outputBuffer, sent, clientPaths, pathsMutex,
                    ambient, inbox, execCwd, files, homeSet, alphabet, budget,
                    returned, answers, backendPath >>

\* the steps the GUI's thread takes by itself
GuiStep == GuiResend \/ GuiFinish \/ GuiCatch

NextGui ==
    \/ ServerStep
    \/ BackendStep
    \/ \E path \in InputPaths : \E line \in alphabet : SubmitLine(path, line)
    \/ GuiStep

\* lines of each class the handlers tell apart, a cd that fails, a cd into
\* a directory with "Error" in its name, a nano on a file longer than the
\* client's buffer, and a line longer than sendCommand accepts
GuiCommands ==
    { "cd ..", "cd /nx", "cd /home/Error", "nano f", "pwd", "clear", "exit",
      Fill(MaxCommandLength + 1) }
GuiFiles == [p \in {"/srv/f"} |-> Fill(ResponseBufferSize)]

InitGui == InitRun(TRUE, GuiCommands, GuiFiles, FewCmds)
SpecGui == InitGui /\ [][NextGui]_vars

\* runs in which the server's thread and the client's thread are scheduled
\* again and again; the user need not enter another line
GuiFairCommands ==
    { "cd ..", "cd /nx", "nano f", "pwd", "exit", Fill(MaxCommandLength + 1) }
InitGuiFair == InitRun(TRUE, GuiFairCommands, InitFiles, FewCmds)
SpecGuiFair ==
    InitGuiFair /\ [][NextGui]_vars
    /\ WF_vars(ServerStep) /\ WF_vars(BackendStep) /\ WF_vars(GuiStep)

(* ------------------------------- claims ------------------------------- *)

\* the registry entry of descriptor b, if there is one
EntryOf(b) == IF b \in DOMAIN clientPaths THEN << clientPaths[b] >> ELSE << >>

\* the step is one of the thread of descriptor a, handling a cd command
CdStepOf(a) ==
    /\ pc'[a] # pc[a]
    /\ IsCd(IF pc[a] = "recv" THEN cmd'[a] ELSE cmd[a])

\* the step is handleChangeDirectory run by the thread of descriptor s
CdHandlerStep(s) == pc[s] = "cd" /\ pc'[s] # "cd"

\* what the token of the cd command of descriptor s resolves to
CdResolved(s) ==
    LET rawPath == CdRawPath(cmd[s])
    IN  ResolvePath(IF rawPath = "" THEN "~" ELSE rawPath, clientPaths[s])

\* the token resolves to an existing, readable and executable directory
CdTargetValid(s) ==
    /\ CdResolved(s).ok
    /\ CdResolved(s).val \in Dirs
    /\ CdResolved(s).val \notin NoAccess

\* the thread of descriptor s has returned after an "exit"
Exited(s) == pc[s] = "done" /\ cmd[s] = "exit"

\* C1: a generic command received on a session is run by the subprocess in
\* that session's stored directory, under every interleaving of sessions.
C1_SubprocessRunsInSessionDirectory ==
    \A s \in Sockets :
        (pc[s] = "sent" /\ execCwd[s] # "") => execCwd[s] = clientPaths[s]

\* C2: a cd processed on session a (successful or failed) leaves the
\* registry entry of every other session b unchanged.
C2_CdLeavesOtherEntries ==
    [][\A a \in Sockets : \A b \in Sockets \ {a} :
          CdStepOf(a) => EntryOf(b)' = EntryOf(b)]_vars

\* C2 witness: a cd has succeeded on one session while another session is
\* registered with a different directory.
C2_Witness ==
    \E a \in Sockets : \E b \in Sockets \ {a} :
        /\ pc[a] = "sent" /\ IsCd(cmd[a])
        /\ a \in DOMAIN clientPaths /\ b \in DOMAIN clientPaths
        /\ Len(sent[a]) >= 1 /\ sent[a][1] = "\n" \o clientPaths[a]
        /\ clientPaths[b] # clientPaths[a]

\* C3: handling commands never changes the server process's own working
\* directory: it equals its startup value in every reachable state.
C3_AmbientDirectoryUnchanged == ambient = StartDir

C5_InvalidCdSaysInvalidDirectory ==
    [][\A s \in Sockets :
          (CdHandlerStep(s) /\ ~CdTargetValid(s)) =>
              /\ clientPaths'[s] = clientPaths[s]
              /\ Len(sent'[s]) >= 1
              /\ Contains(sent'[s][1], "Invalid directory")]_vars

\* C6: every failure response of the change-directory handler contains
\* "Error" or "Invalid directory".
C6_CdFailureIsRecognisable ==
    [][\A s \in Sockets :
          (CdHandlerStep(s) /\ ~CdTargetValid(s)) =>
              /\ Len(sent'[s]) >= 1
              /\ \/ Contains(sent'[s][1], "Error")
                 \/ Contains(sent'[s][1], "Invalid directory")]_vars

\* C7: no success response of the change-directory handler contains
\* "Error" or "Invalid directory", whatever the name of the directory.
C7_CdSuccessHasNoFailureText ==
    [][\A s \in Sockets :
          (CdHandlerStep(s) /\ CdTargetValid(s)) =>
              /\ Len(sent'[s]) >= 1
              /\ ~Contains(sent'[s][1], "Error")
              /\ ~Contains(sent'[s][1], "Invalid directory")]_vars

\* C8: for every command received, the server issues exactly one send on
\* the connection, whatever the command class and the outcome.
C8_OneSendPerCommand ==
    \A s \in Sockets :
        (pc[s] = "sent" \/ Exited(s)) => Len(sent[s]) = 1

\* C9: on "exit" the server sends "Goodbye!"; after that the thread never
\* runs again, sends nothing more and takes no command from the connection.
C9_ExitEndsTheSession ==
    [][\A s \in Sockets :
          /\ (pc[s] = "recv" /\ cmd[s] # "exit" /\ cmd'[s] = "exit") =>
                 (sent'[s] = << "Goodbye!" >> /\ pc'[s] = "done")
          /\ Exited(s) =>
                 /\ pc'[s] = "done" /\ cmd'[s] = "exit"
                 /\ sent'[s] = sent[s]
                 /\ Len(inbox'[s]) >= Len(inbox[s])]_vars

\* C9 witness: after an exit was answered with the farewell, a further
\* command has arrived on the connection and stays unprocessed.
C9_Witness ==
    \E s \in Sockets :
        Exited(s) /\ sent[s] = << "Goodbye!" >> /\ inbox[s] # << >>

\* C10: after "exit" the server closes the connection's socket and removes
\* its registry entry before the handling thread finishes.
C10_ExitCleansUp ==
    \A s \in Sockets :
        Exited(s) => (s \notin open /\ s \notin DOMAIN clientPaths)

\* C11: when a receive returns zero or an error the connection's registry
\* entry is removed with the socket's closing, so that in every state the
\* registry holds entries only for connections that are still open
C11_RegistryHoldsOnlyOpenConnections == DOMAIN clientPaths \subseteq open

\* the step is the receive of a command line by the thread of descriptor s
ReceiveStep(s) == pc[s] = "recv" /\ cmd'[s] # cmd[s]

\* C12: the received text is compared with "exit" and handed to the
\* dispatcher without its line feeds and carriage returns: a text that is
\* "exit" once they are removed gets the farewell and ends the thread,
\* and a cd command is answered as the same command without them is
C12_ReceivedTextIsCleaned ==
    [][\A s \in Sockets :
          /\ (ReceiveStep(s) /\ CleanedCommand(cmd'[s]) = "exit")
                => (pc'[s] = "done" /\ sent'[s] = << Farewell >>)
          /\ CdHandlerStep(s)
                => sent'[s][1] = CdResult(CleanedCommand(cmd[s]), s).msg]_vars

\* the step is executeCommand run by the thread of descriptor s
ExecutorStep(s) == pc[s] = "exec" /\ pc'[s] # "exec"

\* the step is the handler of its command (handleChangeDirectory,
\* handleNanoCommand or executeCommand) run by the thread of descriptor s
HandlerStep(s) == pc[s] \in {"cd", "nano", "exec"} /\ pc'[s] = "sent"

\* C13 as stated: every command whose text holds "sudo", those that begin
\* with "cd" or "nano" included, is never executed and is answered with
\* the fixed refusal message
C13_EverySudoCommandRefused ==
    [][\A s \in Sockets :
          (HandlerStep(s) /\ Contains(cmd[s], "sudo"))
              => (execCwd'[s] = "" /\ files' = files
                    /\ sent'[s] = << SudoRefusal >>)]_vars

\* C13, amended: every command that reaches the executor and whose text
\* holds "sudo" anywhere starts no subprocess and is answered with the
\* fixed refusal message, and nothing else is sent for it
C13_ExecutorRefusesSudo ==
    [][\A s \in Sockets :
          (ExecutorStep(s) /\ Contains(cmd[s], "sudo"))
              => (execCwd'[s] = "" /\ sent'[s] = << SudoRefusal >>)]_vars

\* a command with "sudo" in its middle has been refused
C13_Witness ==
    \E s \in Sockets :
        /\ pc[s] = "sent"
        /\ cmd[s] = "ls && sudo rm -rf /"
        /\ sent[s] = << SudoRefusal >>
        /\ execCwd[s] = ""

\* the step of the thread of descriptor s reads or writes the registry:
\* processCommand's lookup, handleChangeDirectory, or the registration
RegistryAccessStep(s) ==
    \/ ReceiveStep(s) /\ ~IsExit(cmd'[s])
    \/ CdHandlerStep(s)
    \/ pc[s] = "init_locked" /\ pc'[s] = "recv"

\* C14: every access to the registry is made under pathsMutex, so no thread
\* accesses the registry while another thread is inside its own critical
\* section on pathsMutex
C14_RegistryAccessUnderMutex ==
    [][\A s \in Sockets : RegistryAccessStep(s) => pathsMutex \in {0, s}]_vars

\* the step is handleNanoCommand run by the thread of descriptor s, on a
\* command that has a file name
NanoStep(s) == pc[s] = "nano" /\ pc'[s] # "nano" /\ Len(cmd[s]) >= 5

\* the path handleNanoCommand opens for the command of descriptor s
NanoFile(s) == Join(ambient, SubstrFrom(cmd[s], 5))

\* C15: nano on a file that does not exist creates it as an empty file and
\* answers "NEW_FILE"; nano on a file that is empty (as after that first
\* nano) answers "NEW_FILE" again and leaves the file empty
C15_NanoCreatesEmptyFileOnce ==
    [][\A s \in Sockets :
          NanoStep(s) =>
             /\ ~Exists(NanoFile(s))
                   => /\ NanoFile(s) \in DOMAIN files'
                      /\ files'[NanoFile(s)] = ""
                      /\ outputBuffer'[s] = "NEW_FILE"
             /\ (NanoFile(s) \in DOMAIN files /\ files[NanoFile(s)] = "")
                   => (outputBuffer'[s] = "NEW_FILE" /\ files' = files)]_vars

\* C16: nano on an existing file that has content answers exactly that
\* content, and the answer is then never the sentinel "NEW_FILE"
C16_SentinelOnlyForNewOrEmpty ==
    [][\A s \in Sockets :
          (NanoStep(s) /\ NanoFile(s) \in DOMAIN files /\ files[NanoFile(s)] # "")
              => /\ outputBuffer'[s] = files[NanoFile(s)]
                 /\ outputBuffer'[s] # "NEW_FILE"]_vars

\* C17: under every interleaving, the file a nano command of a session
\* reads or creates is its file name joined to the session's own stored
\* directory: the step's answer and the files it leaves are those of the
\* handler run in clientPaths[s]
C17_NanoUsesSessionDirectory ==
    [][\A s \in Sockets :
          NanoStep(s) =>
             /\ files' = NanoResult(cmd[s], clientPaths[s]).files
             /\ outputBuffer'[s] = NanoResult(cmd[s], clientPaths[s]).out]_vars

\* C18: when handleNanoCommand cannot create the file it was asked for, its
\* answer holds "Error" and is not the sentinel
C18_NanoFailureIsReported ==
    [][\A s \in Sockets :
          (NanoStep(s) /\ ~Exists(NanoFile(s)) /\ ~CanCreate(NanoFile(s)))
              => /\ Contains(outputBuffer'[s], "Error")
                 /\ outputBuffer'[s] # "NEW_FILE"]_vars

Hung(a) == pc[a] = "hung"

\* the thread of descriptor b has received a command and not answered it
Processing(b) == pc[b] \in {"cd", "nano", "exec"} /\ ~Hangs(cmd[b])

\* some thread is blocked in a subprocess that never ends
SomeHung == \E a \in Sockets : Hung(a)

\* C20: while the thread of a session is blocked in a subprocess that never
\* ends, every command received on another session is eventually answered,
\* the threads being scheduled fairly: from every state in which a thread
\* is blocked, a state is reached in which it still is and no other thread
\* has a command it has not answered
C20_OthersAnsweredWhileOneHangs ==
    [](SomeHung => <>(SomeHung /\ \A b \in Sockets : ~Processing(b)))

\* a cd, which needs pathsMutex, has been answered while another thread hangs
C20_Witness ==
    \E a, b \in Sockets :
        /\ Hung(a)
        /\ pc[b] = "sent" /\ cmd[b] = "cd .." /\ Len(sent[b]) > 0

\* C21: every command the client sends reaches the dispatcher as one
\* command with its full text: a receive neither starts with bytes that an
\* earlier receive has left behind nor leaves bytes of its command behind
C21_CommandReceivedWhole ==
    [][\A s \in Sockets :
          ReceiveStep(s) => (inbox[s] = << >> /\ inbox'[s] = << >>)]_vars

\* the step is the registration of a new session under descriptor s
RegistrationStep(s) == pc[s] = "init_locked" /\ pc'[s] = "recv"

CdToken(s) == CdRawPath(cmd[s])

\* C23: a cd with an empty token and a cd with the token "~" resolve to the
\* home directory (HOME, or the root when HOME is not set) whatever the
\* session's directory is, and that directory, being valid, is stored
C23_EmptyAndTildeResolveToHome ==
    [][\A s \in Sockets :
          (CdHandlerStep(s) /\ CdToken(s) \in {"", "~"})
              => /\ CdResolved(s) = Ok(IF homeSet THEN HomeDir ELSE "/")
                 /\ CdTargetValid(s) =>
                       clientPaths'[s] = (IF homeSet THEN HomeDir ELSE "/")]_vars

\* without HOME a cd with no token has taken a session to the root
C23_Witness ==
    \E s \in Sockets :
        /\ ~homeSet
        /\ pc[s] = "sent" /\ cmd[s] = "cd"
        /\ clientPaths[s] = "/"
        /\ sent[s][1] = "\n/"

\* C24: for the directory stored in a session, the token "." resolves to
\* that directory and the token ".." to its parent, the root being its own
\* parent
C24_DotAndDotDot ==
    [][\A s \in Sockets :
          CdHandlerStep(s) =>
             /\ CdToken(s) = "." =>
                   (CdResolved(s) = Ok(clientPaths[s]) /\ UNCHANGED clientPaths)
             /\ CdToken(s) = ".." =>
                   /\ CdResolved(s) = Ok(ParentPath(clientPaths[s]))
                   /\ clientPaths'[s] = ParentPath(clientPaths[s])
                   /\ clientPaths[s] = "/" => clientPaths'[s] = "/"]_vars

\* a "cd .." at the root has left the session at the root
C24_Witness ==
    \E s \in Sockets :
        /\ pc[s] = "sent" /\ cmd[s] = "cd .."
        /\ clientPaths[s] = "/"
        /\ budget = 0
        /\ \A t \in Sockets \ {s} : pc[t] = "none"
        /\ homeSet

\* C25: resolving and then validating a path that is a regular file gives
\* false with the reason "not a directory", a path that does not exist
\* gives false with the reason "does not exist", and in neither case does
\* the sequence throw
C25_ResolveThenValidateGivesReason ==
    [][\A s \in Sockets :
          CdHandlerStep(s) =>
             LET t == ResolveTarget(IF CdToken(s) = "" THEN "~" ELSE CdToken(s),
                                    clientPaths[s])
             IN  /\ t \in DOMAIN files =>
                       /\ CdResolved(s).ok
                       /\ ValidateDirectory(CdResolved(s).val)
                             = [ok |-> FALSE, reason |-> "not a directory"]
                 /\ ~Exists(t) =>
                       /\ CdResolved(s).ok
                       /\ ValidateDirectory(CdResolved(s).val)
                             = [ok |-> FALSE, reason |-> "does not exists"]]_vars

\* C26: the client handles "clear" itself and sends nothing for it, in the
\* single terminal and in a pane: the text a server thread has received
\* from its client is never "clear"
C26_ClearIsNotSent == \A s \in Sockets : cmd[s] # "clear"

\* the command the handler of descriptor s is about to answer fails: the cd
\* is not carried out, nano cannot read or create its file, the executor
\* answers with an error
CommandFails(s) ==
    \/ pc[s] = "cd" /\ CdResult(cmd[s], s).kind # "ok"
    \/ pc[s] = "nano" /\ (Len(cmd[s]) < 5
                            \/ (~Exists(NanoFile(s)) /\ ~CanCreate(NanoFile(s))))
    \/ pc[s] = "exec" /\ pc'[s] = "sent" /\ Substr(outputBuffer'[s], 0, 6) = "Error:"

\* C27: after a cd, a nano or a generic command has failed the connection
\* stays open and its thread stays in the receive loop: the failure is
\* answered, and after the answer the thread is back at recv, where the
\* next command is received and handled
C27_ConnectionSurvivesFailure ==
    [][\A s \in Sockets :
          /\ (pc[s] \in {"cd", "nano", "exec"} /\ pc'[s] # pc[s] /\ CommandFails(s))
                => (pc'[s] = "sent" /\ s \in open' /\ sent'[s] # << >>)
          /\ (pc[s] = "sent" /\ pc'[s] # "sent")
                => (pc'[s] = "recv" /\ s \in open' /\ UNCHANGED clientPaths)
          /\ (ReceiveStep(s) /\ cmd'[s] # "exit")
                => pc'[s] \in {"cd", "nano", "exec", "sent"}]_vars

\* a connection on which only failing commands were sent has had every one
\* of them answered
C27_Witness ==
    /\ alphabet = FailCommands
    /\ budget = 0
    /\ pc[1] = "sent" /\ cmd[1] = "false"
    /\ outputBuffer[1] = "Error: Unknown command: false"
    /\ \A t \in Sockets \ {1} : pc[t] = "none"

C29_SudoFilterIsCaseSensitive ==
    [][\A s \in Sockets :
          (ExecutorStep(s) /\ Contains(ToLower(cmd[s]), "sudo")
                           /\ ~Contains(cmd[s], "sudo"))
              => /\ outputBuffer'[s] # SudoRefusal
                 /\ \/ /\ execCwd'[s] = ambient
                       /\ outputBuffer'[s] = ExecuteCommand(cmd[s], ambient, TRUE)
                    \/ outputBuffer'[s] = "Error: Command not recognized or failed to execute."]_vars

\* "SUDO ls" has been run by the shell, which did not find the program
C29_Witness ==
    \E s \in Sockets :
        /\ pc[s] = "sent"
        /\ cmd[s] = "SUDO ls"
        /\ execCwd[s] = clientPaths[s]
        /\ outputBuffer[s] = "bash: SUDO ls: command not found\n"

\* the cd command of descriptor s has been answered by
\* handleChangeDirectory: its own message is sent, and after it the empty
\* output buffer
CdHandled(s) == pc[s] = "sent" /\ IsCd(cmd[s]) /\ Len(sent[s]) = 2

\* sessions s and t have each had the same cd command, with a token that
\* starts with "/", answered by handleChangeDirectory
SameAbsoluteCd(s, t) ==
    /\ CdHandled(s) /\ CdHandled(t)
    /\ cmd[s] = cmd[t]
    /\ CharAt(CdToken(s), 1) = "/"

\* C30 as stated: two sessions that issue the same cd with a token
\* starting with "/" end with the same stored directory and the same
\* response, whatever their stored directories were
C30_AbsoluteCdSameDirectoryAndResponse ==
    \A s, t \in Sockets :
        SameAbsoluteCd(s, t) => (sent[s] = sent[t] /\ clientPaths[s] = clientPaths[t])

\* C30, amended: two sessions whose same cd with a token starting with "/"
\* is handled get the same response, and when that response is the success
\* response they end with the same stored directory, the one the response
\* names
C30_AbsoluteCdSameResponse ==
    \A s, t \in Sockets :
        SameAbsoluteCd(s, t) =>
            /\ sent[s] = sent[t]
            /\ (\E d \in Dirs : sent[s][1] = CdSuccessMsg(d)) =>
                  /\ clientPaths[s] = clientPaths[t]
                  /\ sent[s][1] = CdSuccessMsg(clientPaths[s])

\* two sessions in different directories have had the same failing
\* absolute cd answered alike, and each is where it was
C30_Witness ==
    /\ SameAbsoluteCd(1, 2)
    /\ cmd[1] = "cd /nx"
    /\ clientPaths[1] = "/" /\ clientPaths[2] = "/srv"
    /\ sent[1] = sent[2]

\* C32: the directory a newly accepted session is registered with does not
\* depend on the commands other sessions have issued before: it is the
\* directory the server was started in, in every run
C32_InitialDirectoryIsStartDir ==
    [][\A s \in Sockets : RegistrationStep(s) => clientPaths'[s] = StartDir]_vars

\* a step in which a response is written to the socket of descriptor s
SendStep(s) == Len(sent'[s]) > Len(sent[s])

\* C31: every send of a response on a client socket (the generic and nano
\* responses, the cd success and failure messages, the exit farewell) is
\* made by a thread that holds clientMutex
C31_EverySendUnderClientMutex ==
    [][\A s \in Sockets : SendStep(s) => clientMutex = s]_vars

\* a set of threads each about to lock a mutex that a thread of the set holds
WaitForCycle(D) ==
    /\ D # {}
    /\ \A s \in D : WaitsFor(s) # "none" /\ HolderOf(WaitsFor(s)) \in D

\* C37: pathsMutex, clientMutex and logMutex are locked in an order without
\* cycles: in no reachable state is there a set of threads each waiting for
\* a mutex held by a thread of the set
C37_NoWaitForCycle == \A D \in SUBSET Sockets : ~WaitForCycle(D)

\* a thread holding pathsMutex waits for logMutex while another thread is
\* inside Logger::log holding clientMutex as well
C37_Witness ==
    \E s, t \in Sockets :
        /\ s # t
        /\ pathsMutex = s /\ WaitsFor(s) = "logMutex"
        /\ logMutex = t /\ clientMutex = t

\* C38: no thread writes to its socket while it holds pathsMutex, so a send
\* that blocks never keeps another session from its cd or a new connection
\* from being registered
C38_NoSendUnderPathsMutex ==
    [][\A s \in Sockets : SendStep(s) => pathsMutex # s]_vars

\* sendCommand of thread t writes its command to the socket
BackendSendStep(t) == call[t].at = "locked" /\ call'[t].at = "sent"

\* thread t is between the start of its send and the end of its receive
InExchange(t) == call[t].at \in {"locked", "sent"}

\* C39: two threads calling sendCommand on one ClientBackend do not
\* interleave their exchanges: when a thread's send starts, no other thread
\* is between its own send and the matching receive
C39_ExchangesDoNotInterleave ==
    [][\A t \in ClientThreads : BackendSendStep(t) =>
          \A u \in ClientThreads \ {t} : ~InExchange(u) /\ ~InExchange(u)']_vars

\* a thread has sent and waits for its response while the other thread has
\* called sendCommand and waits for backendMutex
C39_Witness ==
    \E t, u \in ClientThreads :
        /\ t # u
        /\ call[t].at = "sent"
        /\ call[u].at = "calling"

\* C33: for each line the user submits the client calls sendCommand once,
\* so the command is sent once and one response is consumed, whatever the
\* class of the command and the input path
C33_EachLineSentOnce == gui.sends <= 1

\* thread t is inside sendCommand
InSendCommand(t) == call[t].at \in {"calling", "locked", "sent"}

\* C34: every call of sendCommand eventually returns a response or throws,
\* also a call made after the server has answered "exit"
C34_EveryCallEnds ==
    \A t \in ClientThreads : InSendCommand(t) ~> ~InSendCommand(t)

\* the cd branch of an input handler has the response and is through
CdFinishStep ==
    /\ gui.stage \in {"first", "second"}
    /\ IsCd(gui.line)
    /\ call[GuiThread].at = "returned"
    /\ gui'.stage = "idle"

\* the server's response to a cd that succeeded begins with a newline
CdSucceeded(response) == Substr(response, 0, 1) = "\n"

\* C35: when the client sets its path after a cd, the new path is the
\* directory the server has stored for the connection, and after a cd that
\* failed on the server the client's path is as before
C35_ClientPathFollowsServer ==
    [][CdFinishStep =>
          /\ backendPath' # backendPath => backendPath' = clientPaths[ClientSock]
          /\ ~CdSucceeded(call[GuiThread].response) => backendPath' = backendPath]_vars

\* the server's complete responses on the client's connection, the
\* farewell included
CompleteAnswers ==
    answers \o (IF pc[ClientSock] = "done" THEN sent[ClientSock] ELSE << >>)

\* C36: the text the k-th call of sendCommand returns is the server's
\* complete response to the k-th command: nothing is cut off by the
\* client's read and nothing left over is returned for a later command
C36_KthResponseIsKthAnswer ==
    \A k \in 1..Len(returned) :
        k <= Len(CompleteAnswers) => returned[k] = CompleteAnswers[k]

====
